---- MODULE Spec2Model ----
(***************************************************************************)
(* Model of the agent-graph-jira workflow controller                       *)
(* (src/core/agent/jira_agent.py), its issue-field derivation, the tracker *)
(* client's create-issue path (src/core/tools/jira_client.py), the         *)
(* completion client (src/infrastructure/llm_clients/openai_client.py),    *)
(* the prompt builder (src/core/prompts/story_expansion.py) and the        *)
(* command line (src/main.py, src/utils/config.py).                        *)
(*                                                                         *)
(* Python values are tagged records: None, Str(s), List(l).  A dict is a   *)
(* record over all the keys the code reads, a missing key holding Absent.  *)
(***************************************************************************)
EXTENDS Integers, Sequences, FiniteSets, TLC

VARIABLES
    config,          \* JiraAgent.config, the dict loaded from YAML
    dry_run,         \* JiraAgent.dry_run
    stories,         \* AgentState.stories (aliases config["stories"] once loaded)
    current_story,   \* AgentState.current_story
    expanded_story,  \* AgentState.expanded_story
    jira_issue,      \* AgentState.jira_issue
    error,           \* AgentState.error
    issue_data,      \* the request derived by the running/last submit step
    pc,              \* the graph node to run next
    steps,           \* graph steps executed so far
    loaded,          \* history: the story list as it was loaded from YAML
    idx,             \* history: position in `loaded` of the current story
    hist,            \* history: per-story counters and flags
    sent,            \* history: the last request handed to the tracker connection
    calls,           \* history: invocations of the two clients, over the whole run
    jira_conn,       \* JiraClient._client: the tracker connection, once created
    proc,            \* the command-line process: command, file, environment, exit
    llm_client,      \* OpenAIClient: client.max_tokens, and its last call on its own
    prompt           \* the result of the last prompt rendering on its own

vars == <<config, dry_run, stories, current_story, expanded_story, jira_issue,
          error, issue_data, pc, steps, loaded, idx, hist, sent, calls, jira_conn,
          proc, llm_client, prompt>>

(***************************************************************************)
(* Bounds                                                                  *)
(***************************************************************************)
\* longest story list of a configuration
MaxStories == 2

\* graph steps one invocation may take before the graph library gives up
RecursionLimit == 10

(***************************************************************************)
(* Python values                                                           *)
(***************************************************************************)
None == [tag |-> "none"]

Absent == [tag |-> "absent"]

Str(s) == [tag |-> "str", s |-> s]

List(l) == [tag |-> "list", l |-> l]

IntV(n) == [tag |-> "int", n |-> n]

\* Python truthiness of a value: None, "" and [] are false.
Truthy(v) ==
    CASE v.tag = "none" -> FALSE
      [] v.tag = "absent" -> FALSE
      [] v.tag = "str" -> v.s # ""
      [] v.tag = "list" -> v.l # <<>>
      [] v.tag = "int" -> v.n # 0
      [] OTHER -> TRUE

\* dict.get(key, default) on the value stored under the key
DictGet(v, default) == IF v = Absent THEN default ELSE v

StoryKeys == {"title", "description", "priority", "labels", "components",
              "project", "issue_type", "epic"}

EmptyStory == [k \in StoryKeys |-> Absent]

\* truthiness of a story dict: a dict without keys is false
TruthyDict(d) == d # None /\ \E k \in DOMAIN d : d[k] # Absent

GlobalKeys == {"project", "labels", "components", "epic"}

EmptyGlobal == [k \in GlobalKeys |-> Absent]

\* the settings AppSettings declares without a default
RequiredSettings == {"JIRA_URL", "JIRA_USERNAME", "JIRA_API_TOKEN", "JIRA_PROJECT_KEY"}

\* AppSettings.jira_project_key and jira_url, required environment settings
JiraProjectKey == Str("ENVPROJ")

JiraUrl == "https://jira.example"

(***************************************************************************)
(* Results of calls that may raise                                         *)
(***************************************************************************)
Ok(v) == [ok |-> TRUE, v |-> v, exc |-> ""]

Raise(e) == [ok |-> FALSE, v |-> None, exc |-> e]

\* a dict with exactly one key, as in {"key": v} and {"name": v}
Dict1(k, v) == [tag |-> "dict", k |-> k, v |-> v]

(***************************************************************************)
(* Inputs: the YAML configuration                                          *)
(***************************************************************************)
Story(title, project, labels) ==
    [EmptyStory EXCEPT !["title"] = title, !["project"] = project,
                       !["labels"] = labels]

\* the stories of the runs explored: project absent / set / null / empty,
\* a story whose labels are null, and a story without any field
StorySet ==
    { Story(Str("A"), Absent, Absent),
      Story(Str("B"), Str("P1"), List(<<Str("l1")>>)),
      Story(Absent, None, Absent),
      Story(Str("C"), Str(""), Absent),
      Story(Str("D"), Absent, None),
      EmptyStory }

\* the value under the configuration's "global" key: missing, null, or a dict
GlobalSet ==
    { Absent,
      None,
      [EmptyGlobal EXCEPT !["project"] = Str("G1")],
      [EmptyGlobal EXCEPT !["project"] = None] }

StoryLists == UNION { [1..n -> StorySet] : n \in 0..MaxStories }

ConfigSet ==
    { [has_stories |-> TRUE, stories |-> l, global |-> g] :
          l \in StoryLists, g \in GlobalSet }
    \cup { [has_stories |-> FALSE, stories |-> <<>>, global |-> g] : g \in GlobalSet }

\* what the completion service can answer to one request
Texts == {"textA", "textB", ""}

LLMUpstream ==
    { [kind |-> "text", text |-> t] : t \in Texts }
    \cup { [kind |-> "no_generations", text |-> ""],
           [kind |-> "empty_first_generation", text |-> ""],
           [kind |-> "raise", text |-> "timeout"] }

\* what the tracker service can answer to one create request
JiraUpstream ==
    { [kind |-> "created", key |-> "KEY-1"],
      [kind |-> "raise", key |-> "HTTP 400"] }

\* ... and, while no connection exists yet, opening it can fail as well
JiraConnectRaise == [kind |-> "connect_raise", key |-> "connection refused"]

JiraUpstreamFor(conn) ==
    IF conn = "none" THEN JiraUpstream \cup {JiraConnectRaise} ELSE JiraUpstream

(***************************************************************************)
(* Prompt builder                                                          *)
(***************************************************************************)
\* ", ".join(story.get(key, [])) raises TypeError unless the value is a list
\* of strings (a str value joins its characters and does not raise)
JoinRaises(v) ==
    /\ v # Absent
    /\ v.tag # "str"
    /\ \/ v.tag # "list"
       \/ \E i \in 1..Len(v.l) : v.l[i].tag # "str"

\* ", ".join(l) for a list l of strings
RECURSIVE Join(_)
Join(l) ==
    IF l = <<>> THEN ""
    ELSE IF Len(l) = 1 THEN l[1].s
    ELSE l[1].s \o ", " \o Join(Tail(l))

\* ", ".join(story.get(key, [])) or "None", where the join does not raise;
\* a str value joins its characters, which for the strings of at most one
\* character that occur here is the string itself
JoinedOrNone(v) ==
    LET value == DictGet(v, List(<<>>))
        joined == IF value.tag = "str" THEN value.s ELSE Join(value.l)
    IN IF joined = "" THEN "None" ELSE joined

\* StoryExpansionPrompt.generate_expansion_prompt: the values substituted
\* into the fixed template, or the TypeError of the join
GenerateExpansionPrompt(story) ==
    IF JoinRaises(story["labels"]) \/ JoinRaises(story["components"])
    THEN Raise("can only join an iterable")
    ELSE Ok([tag |-> "prompt",
             title |-> DictGet(story["title"], Str("Untitled Story")),
             description |-> DictGet(story["description"],
                                     Str("No description provided")),
             priority |-> DictGet(story["priority"], Str("Medium")),
             labels |-> JoinedOrNone(story["labels"]),
             components |-> JoinedOrNone(story["components"])])

GenerateExpansionPromptRaises(story) == ~GenerateExpansionPrompt(story).ok

(***************************************************************************)
(* Completion client                                                       *)
(***************************************************************************)
\* ChatOpenAI(..., max_tokens=1000, ...) in OpenAIClient.client
DefaultMaxTokens == 1000

\* the completion client before any call: the connection's max_tokens, and
\* no call made
NoClient == [max_tokens |-> IntV(DefaultMaxTokens), call |-> None]

\* mutant: only `not response.generations` is checked, so that indexing an
\* empty first generation list raises IndexError
Agenerate_NoInnerCheck(u) ==
    IF u.kind = "raise" THEN Raise(u.text)
    ELSE IF u.kind = "no_generations" THEN Raise("Empty response from OpenAI")
    ELSE IF u.kind = "empty_first_generation" THEN Raise("list index out of range")
    ELSE Ok(Str(u.text))

\* OpenAIClient.agenerate on the upstream answer u
Agenerate(u) ==
    IF u.kind = "raise" THEN Raise(u.text)
    ELSE IF u.kind \in {"no_generations", "empty_first_generation"}
         THEN Raise("Empty response from OpenAI")
    ELSE Ok(Str(u.text))

(***************************************************************************)
(* Issue-field derivation                                                  *)
(***************************************************************************)
IssueKeys == {"project", "summary", "description", "issuetype", "labels",
              "components", "customfield_10014"}

\* self.config.get("global", {})
GlobalConfig == IF config.global = Absent THEN EmptyGlobal ELSE config.global

Components(v) ==
    IF v.tag = "list"
    THEN List([i \in 1..Len(v.l) |-> Dict1("name", v.l[i])])
    ELSE v

\* mutant: the fallbacks chained with `or`, so that a present but empty or
\* null project falls through to the next source
ProjectOf_OrChain(story, g) ==
    IF Truthy(story["project"]) THEN story["project"]
    ELSE IF Truthy(g["project"]) THEN g["project"]
    ELSE JiraProjectKey

\* story.get("project", global_config.get("project", settings.jira_project_key))
ProjectOf(story, g) ==
    DictGet(story["project"], DictGet(g["project"], JiraProjectKey))

\* mutant: without a title the summary is left out
SummaryOf_NoDefault(story) == story["title"]

\* story.get("title", "Generated Story")
SummaryOf(story) == DictGet(story["title"], Str("Generated Story"))

\* mutant: an optional field is written whatever its value
OptionalField_Always(v) == v

\* `if labels:` / `if components:` / `if epic_key:`: the field is written
\* only when its value is true
OptionalField(v) == IF Truthy(v) THEN v ELSE Absent

PrepareIssueData(story, expanded_content) ==
    IF GlobalConfig = None
    THEN Raise("'NoneType' object has no attribute 'get'")
    ELSE
      LET g == GlobalConfig
          labels == DictGet(story["labels"], DictGet(g["labels"], List(<<>>)))
          components == DictGet(story["components"],
                                DictGet(g["components"], List(<<>>)))
          epic_key == DictGet(story["epic"], DictGet(g["epic"], None))
      IN Ok([k \in IssueKeys |->
               CASE k = "project" ->
                      Dict1("key", ProjectOf(story, g))
                 [] k = "summary" -> SummaryOf(story)
                 [] k = "description" -> expanded_content
                 [] k = "issuetype" ->
                      Dict1("name", DictGet(story["issue_type"], Str("Story")))
                 [] k = "labels" -> OptionalField(labels)
                 [] k = "components" ->
                      IF OptionalField(components) = Absent THEN Absent
                      ELSE Components(components)
                 [] k = "customfield_10014" -> OptionalField(epic_key)])

(***************************************************************************)
(* Tracker client                                                          *)
(***************************************************************************)
IsDictWith(v, k) == v.tag = "dict" /\ v.k = k

\* mutant: the summary is not among the required fields
ValidateIssueData_NoSummary(d) ==
    IF d["project"] = Absent
    THEN "Required field 'project' is missing from issue data"
    ELSE IF d["issuetype"] = Absent
    THEN "Required field 'issuetype' is missing from issue data"
    ELSE IF ~IsDictWith(d["project"], "key")
    THEN "Project must be a dictionary with 'key' field"
    ELSE IF ~IsDictWith(d["issuetype"], "name")
    THEN "Issue type must be a dictionary with 'name' field"
    ELSE ""

\* JiraClient._validate_issue_data: "" when valid, else the ValueError text
ValidateIssueData(d) ==
    IF d["project"] = Absent
    THEN "Required field 'project' is missing from issue data"
    ELSE IF d["summary"] = Absent
    THEN "Required field 'summary' is missing from issue data"
    ELSE IF d["issuetype"] = Absent
    THEN "Required field 'issuetype' is missing from issue data"
    ELSE IF ~IsDictWith(d["project"], "key")
    THEN "Project must be a dictionary with 'key' field"
    ELSE IF ~IsDictWith(d["issuetype"], "name")
    THEN "Issue type must be a dictionary with 'name' field"
    ELSE ""

\* JiraClient.create_issue on the upstream answer u; `called` tells whether
\* the request reached the tracker connection, `conn` is JiraClient._client
\* after the call (the client property creates the connection on first use,
\* inside the executor call, that is after the validation)
JiraCreateIssue(d, u) ==
    IF ValidateIssueData(d) # ""
    THEN [res |-> Raise(ValidateIssueData(d)), called |-> FALSE,
          conn |-> jira_conn]
    ELSE IF u.kind = "connect_raise"
    THEN [res |-> Raise(u.key), called |-> FALSE, conn |-> "none"]
    ELSE IF u.kind = "raise"
    THEN [res |-> Raise(u.key), called |-> TRUE, conn |-> "JIRA"]
    ELSE [res |-> Ok([tag |-> "issue", key |-> u.key, id |-> "10001",
                      url |-> JiraUrl \o "/browse/" \o u.key,
                      summary |-> d["summary"], project |-> d["project"].v,
                      dry_run |-> FALSE]),
          called |-> TRUE, conn |-> "JIRA"]

\* the synthetic result of a dry run
DryRunIssue ==
    [tag |-> "issue", key |-> "DRY-RUN-123", id |-> "", url |-> "",
     summary |-> Absent, project |-> Absent, dry_run |-> TRUE]

(***************************************************************************)
(* History bookkeeping (not program state)                                 *)
(***************************************************************************)
NoHist ==
    [llm |-> 0, exp_failed |-> FALSE, text |-> None, submit_steps |-> 0,
     creates |-> 0, placeholders |-> 0, issued |-> FALSE, tracker_failed |-> FALSE,
     derive_failed |-> FALSE]

\* the run-wide history: client invocations, exceptions caught by the two
\* steps, and the text the completion client returned in the current cycle
NoCalls == [llm |-> 0, tracker |-> 0, caught |-> 0, cycle_text |-> None]

\* update the record of the current story, if there is one
Note(h, i, field, value) ==
    IF i \in 1..Len(h) THEN [h EXCEPT ![i][field] = value] ELSE h

(***************************************************************************)
(* The workflow graph                                                      *)
(***************************************************************************)
\* workflow.add_edge(a, b): the node that runs after node a
EdgeFrom(node) ==
    CASE node = "load_stories" -> "process_story"
      [] node = "process_story" -> "expand_story"
      [] node = "expand_story" -> "create_jira_issue"
      [] node = "create_jira_issue" -> "process_story"
      [] node = "handle_error" -> "process_story"

\* mutant: the caught exception is only logged, the indicator stays unset
ErrorReason_Dropped(prefix, exc) == None

\* state.error = f"Error ...: {e}" in the except blocks of the two steps
ErrorReason(prefix, exc) == Str(prefix \o exc)

\* mutant: pop() takes the last story instead of the first
PopFirst_Last(q) == [story |-> q[Len(q)], rest |-> SubSeq(q, 1, Len(q) - 1)]

\* state.stories.pop(0): the story taken and the list left
PopFirst(q) == [story |-> Head(q), rest |-> Tail(q)]

\* mutant: the completion client is called whatever the current story is
ExpandPrecheck_AlwaysCall(story) == "call"

\* _expand_story before the completion call: the guard on the current story,
\* then the prompt rendering
ExpandPrecheck(story) ==
    IF ~TruthyDict(story) THEN "no_story"
    ELSE IF GenerateExpansionPromptRaises(story) THEN "prompt_raises"
    ELSE "call"

\* mutant: the submit step does not look at the error indicator
SubmitPrecheck_IgnoreError(err, expanded, story) ==
    IF ~Truthy(expanded) \/ ~TruthyDict(story) THEN "missing" ELSE "derive"

\* _create_jira_issue before the derivation: its two guards
SubmitPrecheck(err, expanded, story) ==
    IF Truthy(err) THEN "skip"
    ELSE IF ~Truthy(expanded) \/ ~TruthyDict(story) THEN "missing"
    ELSE "derive"

\* workflow.add_node
GraphNodes == {"load_stories", "process_story", "expand_story",
               "create_jira_issue", "handle_error"}

\* workflow.set_entry_point
EntryPoint == "load_stories"

\* a node runs while the graph's step budget lasts
Runs(node) == pc = node /\ steps < RecursionLimit

Step == pc' = EdgeFrom(pc) /\ steps' = steps + 1

Init ==
    /\ config \in ConfigSet
    /\ dry_run \in BOOLEAN
    /\ stories = <<>>
    /\ current_story = None
    /\ expanded_story = None
    /\ jira_issue = None
    /\ error = None
    /\ issue_data = None
    /\ pc = EntryPoint
    /\ steps = 0
    /\ loaded = config.stories
    /\ idx = 0
    /\ hist = [i \in 1..Len(config.stories) |-> NoHist]
    /\ sent = None
    /\ calls = NoCalls
    /\ jira_conn = "none"
    /\ proc = [cmd |-> "run", file |-> "present", content |-> config,
               env |-> RequiredSettings, exit |-> "none", agent |-> TRUE]
    /\ llm_client = NoClient
    /\ prompt = None

\* JiraAgent._load_stories; self.config.get on a configuration that is not a
\* dict raises, and nothing in the graph catches it
LoadStories ==
    /\ Runs("load_stories")
    /\ IF config = None
       THEN /\ pc' = "raised"
            /\ UNCHANGED <<stories, steps>>
       ELSE /\ stories' = (IF config.has_stories THEN config.stories ELSE <<>>)
            /\ Step
    /\ UNCHANGED <<config, dry_run, current_story, expanded_story, jira_issue,
                   error, issue_data, loaded, idx, hist, sent, calls, jira_conn,
                   proc>>
    /\ UNCHANGED <<llm_client, prompt>>

\* JiraAgent._process_story; state.stories is the very list object stored in
\* the configuration, so pop(0) shortens both
ProcessStory ==
    /\ Runs("process_story")
    /\ IF stories = <<>>
       THEN UNCHANGED <<config, stories, current_story, idx>>
       ELSE /\ current_story' = PopFirst(stories).story
            /\ stories' = PopFirst(stories).rest
            /\ config' = (IF config.has_stories
                          THEN [config EXCEPT !.stories = PopFirst(stories).rest]
                          ELSE config)
            /\ idx' = idx + 1
    /\ calls' = [calls EXCEPT !.cycle_text = None]
    /\ Step
    /\ UNCHANGED <<dry_run, expanded_story, jira_issue, error, issue_data,
                   loaded, hist, sent, jira_conn, proc>>
    /\ UNCHANGED <<llm_client, prompt>>

\* JiraAgent._expand_story
ExpandStory ==
    /\ Runs("expand_story")
    /\ IF ExpandPrecheck(current_story) = "no_story"
       THEN /\ error' = Str("No current story to expand")
            /\ UNCHANGED <<expanded_story, hist, calls>>
       ELSE IF ExpandPrecheck(current_story) = "prompt_raises"
       THEN /\ error' = ErrorReason("Error expanding story: ",
                                     "can only join an iterable")
            /\ hist' = Note(hist, idx, "exp_failed", TRUE)
            /\ calls' = [calls EXCEPT !.caught = @ + 1]
            /\ UNCHANGED expanded_story
       ELSE \E u \in LLMUpstream :
              LET response == Agenerate(u)
                  h1 == Note(hist, idx, "llm", hist[idx].llm + 1)
              IN /\ calls' = [calls EXCEPT
                                !.llm = @ + 1,
                                !.cycle_text =
                                    IF response.ok THEN response.v ELSE @,
                                !.caught = IF response.ok THEN @ ELSE @ + 1]
                 /\ IF response.ok
                    THEN /\ expanded_story' = response.v
                         /\ hist' = Note(Note(h1, idx, "text", response.v), idx,
                                         "exp_failed",
                                         hist[idx].exp_failed \/ ~Truthy(response.v))
                         /\ UNCHANGED error
                    ELSE /\ error' = ErrorReason("Error expanding story: ",
                                              response.exc)
                         /\ hist' = Note(h1, idx, "exp_failed", TRUE)
                         /\ UNCHANGED expanded_story
    /\ Step
    /\ UNCHANGED <<config, dry_run, stories, current_story, jira_issue,
                   issue_data, loaded, idx, sent, jira_conn, proc>>
    /\ UNCHANGED <<llm_client, prompt>>

\* JiraAgent._create_jira_issue
CreateJiraIssue ==
    /\ Runs("create_jira_issue")
    /\ IF SubmitPrecheck(error, expanded_story, current_story) = "skip"
       THEN /\ issue_data' = None
            /\ hist' = Note(hist, idx, "submit_steps", hist[idx].submit_steps + 1)
            /\ UNCHANGED <<error, jira_issue, sent, calls, jira_conn>>
       ELSE IF SubmitPrecheck(error, expanded_story, current_story) = "missing"
       THEN /\ error' = Str("Missing expanded story or current story")
            /\ issue_data' = None
            /\ hist' = Note(hist, idx, "submit_steps", hist[idx].submit_steps + 1)
            /\ UNCHANGED <<jira_issue, sent, calls, jira_conn>>
       ELSE
         LET prepared == PrepareIssueData(current_story, expanded_story)
             h1 == Note(hist, idx, "submit_steps", hist[idx].submit_steps + 1)
         IN IF ~prepared.ok
            THEN /\ error' = ErrorReason("Error creating JIRA issue: ",
                                          prepared.exc)
                 /\ issue_data' = None
                 /\ hist' = Note(h1, idx, "derive_failed", TRUE)
                 /\ calls' = [calls EXCEPT !.caught = @ + 1]
                 /\ UNCHANGED <<jira_issue, sent, jira_conn>>
            ELSE IF dry_run
            THEN /\ jira_issue' = DryRunIssue
                 /\ issue_data' = prepared.v
                 /\ hist' = Note(Note(h1, idx, "placeholders",
                                      hist[idx].placeholders + 1),
                                 idx, "issued", TRUE)
                 /\ UNCHANGED <<error, sent, calls, jira_conn>>
            ELSE \E u \in JiraUpstreamFor(jira_conn) :
                   LET r == JiraCreateIssue(prepared.v, u)
                       h2 == IF r.called
                             THEN Note(h1, idx, "creates", hist[idx].creates + 1)
                             ELSE h1
                   IN /\ issue_data' = prepared.v
                      /\ calls' = [calls EXCEPT
                                     !.tracker = @ + 1,
                                     !.caught = IF r.res.ok THEN @ ELSE @ + 1]
                      /\ jira_conn' = r.conn
                      /\ sent' = (IF r.called THEN prepared.v ELSE sent)
                      /\ IF r.res.ok
                         THEN /\ jira_issue' = r.res.v
                              /\ hist' = Note(h2, idx, "issued", TRUE)
                              /\ UNCHANGED error
                         ELSE /\ error' = ErrorReason("Error creating JIRA issue: ",
                                                       r.res.exc)
                              /\ hist' = Note(h2, idx, "tracker_failed", TRUE)
                              /\ UNCHANGED jira_issue
    /\ Step
    /\ UNCHANGED <<config, dry_run, stories, current_story, expanded_story,
                   loaded, idx, proc>>
    /\ UNCHANGED <<llm_client, prompt>>

\* JiraAgent._handle_error.  The graph has no edge into "handle_error", so the
\* node is wired but never scheduled: no step of Next takes it.
HandleError ==
    /\ Runs("handle_error")
    /\ IF Truthy(error)
       THEN /\ error' = None
            /\ current_story' = None
            /\ expanded_story' = None
            /\ jira_issue' = None
       ELSE UNCHANGED <<error, current_story, expanded_story, jira_issue>>
    /\ Step
    /\ UNCHANGED <<config, dry_run, stories, issue_data, loaded, idx, hist, sent,
                   calls, jira_conn, proc>>
    /\ UNCHANGED <<llm_client, prompt>>

\* JiraAgent.process_stories: graph.ainvoke runs nodes along the edges; no
\* edge leads to an end node, so the invocation stops only when the graph's
\* step budget is used up, with an exception that process_stories re-raises.
GraphRecursionError ==
    /\ pc \in GraphNodes
    /\ steps >= RecursionLimit
    /\ pc' = "raised"
    /\ UNCHANGED <<config, dry_run, stories, current_story, expanded_story,
                   jira_issue, error, issue_data, steps, loaded, idx, hist, sent,
                   calls, jira_conn, proc>>
    /\ UNCHANGED <<llm_client, prompt>>

Next ==
    \/ LoadStories
    \/ ProcessStory
    \/ ExpandStory
    \/ CreateJiraIssue
    \/ GraphRecursionError

Spec == Init /\ [][Next]_vars

(***************************************************************************)
(* Claims about the workflow run (properties of Spec)                      *)
(***************************************************************************)
Stories == 1..Len(hist)

\* story k has been through a submit step
Submitted(k) == hist[k].submit_steps >= 1

\* the submit step for the current story has just finished
AfterSubmit == pc = "process_story" /\ idx >= 1 /\ Submitted(idx)

\* C1: once the dequeue step finds the queue empty the run ends: no expand
\* and no submit step is executed after it.
C1_RunEndsWhenQueueEmpty ==
    [][(pc = "process_story" /\ stories = <<>>)
         => pc' \notin {"expand_story", "create_jira_issue"}]_vars

\* C2: failures are isolated: a story that has been through its cycle, whose
\* own expansion, derivation and tracker call did not fail, has an issue,
\* whatever happened to the other stories.
C2_FailuresIsolated ==
    \A k \in Stories :
        ( /\ Submitted(k)
          /\ TruthyDict(loaded[k])
          /\ hist[k].llm >= 1
          /\ ~hist[k].exp_failed
          /\ ~hist[k].derive_failed
          /\ ~hist[k].tracker_failed )
        => hist[k].issued

\* C3: every story is consumed once: at most one completion call and at
\* most one submission (real or dry-run) per story.
C3_ConsumedOnce ==
    \A k \in Stories :
        hist[k].llm <= 1 /\ hist[k].creates + hist[k].placeholders <= 1

\* C4: whenever the controller is about to dequeue a story, the error
\* indicator is none, and nothing of a failed story is left in the state.
C4_ErrorResetBeforeDequeue ==
    (pc = "process_story" /\ stories # <<>> /\ steps < RecursionLimit)
    => /\ error = None
       /\ (idx >= 1 /\ (hist[idx].exp_failed \/ hist[idx].tracker_failed
                          \/ hist[idx].derive_failed))
          => (expanded_story = None /\ jira_issue = None)

\* C5: with a configuration of zero stories neither client is ever invoked.
C5_ZeroStoriesNoCalls ==
    Len(loaded) = 0 => (calls.llm = 0 /\ calls.tracker = 0 /\ sent = None)

\* C5 witness: a run over zero stories has been through expand and submit.
C5_Witness ==
    Len(loaded) = 0 /\ pc = "process_story" /\ steps >= 4

\* C6: once the expansion of story k has failed, no create-issue call and no
\* dry-run placeholder is made for story k.
C6_NoIssueAfterFailedExpansion ==
    [][\A k \in Stories :
          hist[k].exp_failed
          => /\ hist'[k].creates = hist[k].creates
             /\ hist'[k].placeholders = hist[k].placeholders]_vars

\* C6 witness: a story whose completion call failed has been through the
\* submit step, after an earlier story left expanded content behind.
C6_Witness ==
    /\ AfterSubmit
    /\ idx = 2
    /\ hist[1].issued
    /\ hist[2].llm >= 1
    /\ hist[2].exp_failed
    /\ Truthy(expanded_story)

\* C7: in a dry run the tracker is never called, and every submit step that
\* runs for a successfully expanded story (of a well-formed configuration)
\* records the placeholder issue DRY-RUN-123.
C7_DryRunPlaceholder ==
    dry_run
    => /\ calls.tracker = 0
       /\ ( /\ AfterSubmit
             /\ config.global # None
             /\ hist[idx].llm >= 1
             /\ ~hist[idx].exp_failed )
          => (jira_issue # None /\ jira_issue.key = "DRY-RUN-123")

C10_EmptyProjectRejected ==
    (AfterSubmit /\ issue_data # None /\ ~Truthy(issue_data["project"].v))
    => (Truthy(error) /\ hist[idx].creates = 0 /\ ~hist[idx].issued)

(***************************************************************************)
(* The derivation on its own: one story, one global section, one text      *)
(***************************************************************************)
ProjectValues == {Absent, None, Str(""), Str("P1")}

ListValues == {Absent, List(<<>>), List(<<Str("a"), Str("b")>>)}

EpicValues == {Absent, None, Str("E1")}

TitleValues == {Absent, None, Str(""), Str("A")}

DeriveStorySet ==
    { [EmptyStory EXCEPT !["title"] = t, !["project"] = p, !["labels"] = l,
                         !["components"] = c, !["epic"] = e] :
        t \in TitleValues, p \in ProjectValues, l \in ListValues,
        c \in ListValues, e \in EpicValues }

\* derivations made from one story
MaxDerivations == 2

GlobalListValues == {Absent, List(<<>>), List(<<Str("g")>>)}

GlobalEpicValues == {Absent, None, Str("GE")}

DeriveGlobalSet ==
    { [EmptyGlobal EXCEPT !["project"] = p, !["labels"] = l,
                          !["components"] = c, !["epic"] = e] :
        p \in {Absent, None, Str("G1")}, l \in GlobalListValues,
        c \in GlobalListValues, e \in GlobalEpicValues }
    \cup {Absent, None}

DeriveInit ==
    /\ config \in { [has_stories |-> FALSE, stories |-> <<>>, global |-> g] :
                       g \in DeriveGlobalSet }
    /\ dry_run = FALSE
    /\ stories = <<>>
    /\ current_story \in DeriveStorySet
    /\ expanded_story = Str("textA")
    /\ jira_issue = None
    /\ error = None
    /\ issue_data = None
    /\ pc = "derive"
    /\ steps = 0
    /\ loaded = <<>>
    /\ idx = 0
    /\ hist = <<>>
    /\ sent = None
    /\ calls = NoCalls
    /\ jira_conn = "none"
    /\ proc = [cmd |-> "derive", file |-> "present", content |-> config,
               env |-> RequiredSettings, exit |-> "none", agent |-> TRUE]
    /\ llm_client = NoClient
    /\ prompt = None

\* mutant: the optional fields are taken out of the story with pop
Derive_Pop ==
    /\ pc \in {"derive", "derived"}
    /\ steps < MaxDerivations
    /\ steps' = steps + 1
    /\ LET prepared == PrepareIssueData(current_story, expanded_story)
       IN /\ issue_data' = prepared.v
          /\ pc' = (IF prepared.ok THEN "derived" ELSE "derive_raised")
          /\ current_story' =
                (IF prepared.ok
                 THEN [current_story EXCEPT !["labels"] = Absent,
                                            !["components"] = Absent,
                                            !["epic"] = Absent]
                 ELSE current_story)
    /\ UNCHANGED <<config, dry_run, stories, expanded_story,
                   jira_issue, error, loaded, idx, hist, sent, calls,
                   jira_conn, proc>>
    /\ UNCHANGED <<llm_client, prompt>>

\* one call of JiraAgent._prepare_issue_data, on the same story again once
\* it has returned; `steps` counts the calls
Derive ==
    /\ pc \in {"derive", "derived"}
    /\ steps < MaxDerivations
    /\ steps' = steps + 1
    /\ LET prepared == PrepareIssueData(current_story, expanded_story)
       IN /\ issue_data' = prepared.v
          /\ pc' = (IF prepared.ok THEN "derived" ELSE "derive_raised")
    /\ UNCHANGED <<config, dry_run, stories, current_story, expanded_story,
                   jira_issue, error, loaded, idx, hist, sent, calls,
                   jira_conn, proc>>
    /\ UNCHANGED <<llm_client, prompt>>

DeriveNext == Derive

DeriveSpec == DeriveInit /\ [][DeriveNext]_vars

\* C9: the derived project is the story's project if the story has the key,
\* else the global section's project if it has the key, else the fallback
\* project key of the environment settings.
C9_ProjectPrecedence ==
    pc = "derived"
    => LET g == IF config.global = Absent THEN EmptyGlobal ELSE config.global
           expected ==
               IF current_story["project"] # Absent THEN current_story["project"]
               ELSE IF g["project"] # Absent THEN g["project"]
               ELSE JiraProjectKey
       IN issue_data["project"] = Dict1("key", expected)

\* C9 witness: a story without a project, derived against a global section
\* that has one.
C9_Witness ==
    /\ pc = "derived"
    /\ current_story["project"] = Absent
    /\ config.global # Absent
    /\ config.global["project"] = Str("G1")
    /\ issue_data["project"].v = Str("G1")

\* C11: the derived labels are the story's labels if non-empty, else the
\* global section's labels if non-empty, else the field is left out.
C11_LabelsPrecedence ==
    pc = "derived"
    => LET g == IF config.global = Absent THEN EmptyGlobal ELSE config.global
           expected ==
               IF Truthy(current_story["labels"]) THEN current_story["labels"]
               ELSE IF Truthy(g["labels"]) THEN g["labels"]
               ELSE Absent
       IN issue_data["labels"] = expected

\* C12: in a derived request the labels, components and epic-link fields are
\* each either left out or non-empty.
C12_NoEmptyOptionalField ==
    pc = "derived"
    => \A k \in {"labels", "components", "customfield_10014"} :
          issue_data[k] = Absent \/ Truthy(issue_data[k])

\* C12 witness: a story with empty labels and components and a null epic,
\* derived against a global section without these keys.
C12_Witness ==
    /\ pc = "derived"
    /\ current_story["labels"] = List(<<>>)
    /\ current_story["components"] = List(<<>>)
    /\ current_story["epic"] = None
    /\ issue_data["labels"] = Absent
    /\ issue_data["components"] = Absent
    /\ issue_data["customfield_10014"] = Absent

\* C22: the derived components are those of the story if non-empty, else
\* those of the global section if non-empty, else the field is left out; the
\* field holds one {name: c} per resolved component, in the same order.
C22_ComponentsPrecedence ==
    pc = "derived"
    => LET g == IF config.global = Absent THEN EmptyGlobal ELSE config.global
           resolved ==
               IF Truthy(current_story["components"])
               THEN current_story["components"]
               ELSE IF Truthy(g["components"]) THEN g["components"]
               ELSE Absent
           emitted == issue_data["components"]
       IN IF resolved = Absent
          THEN emitted = Absent
          ELSE /\ emitted # Absent
               /\ emitted.tag = "list"
               /\ Len(emitted.l) = Len(resolved.l)
               /\ \A i \in 1..Len(resolved.l) :
                     emitted.l[i] = Dict1("name", resolved.l[i])

\* C23: the derived epic link is the story's epic if it has one, else the
\* global section's epic, also when the story's epic field is present but
\* null; the field is left out only when neither has an epic.
C23_EpicPrecedence ==
    pc = "derived"
    => LET g == IF config.global = Absent THEN EmptyGlobal ELSE config.global
           expected ==
               IF Truthy(current_story["epic"]) THEN current_story["epic"]
               ELSE IF Truthy(g["epic"]) THEN g["epic"]
               ELSE Absent
       IN issue_data["customfield_10014"] = expected

\* C24: the derived summary is the story's title when it has one, else the
\* literal "Generated Story"; it is never empty.
C24_SummaryNonEmpty ==
    pc = "derived"
    => /\ issue_data["summary"] =
              (IF Truthy(current_story["title"]) THEN current_story["title"]
               ELSE Str("Generated Story"))
       /\ Truthy(issue_data["summary"])

\* C27: a derivation changes nothing but the request it returns: the queue,
\* the current story, the expanded content, the issue reference, the error
\* indicator and the configuration stay as they are, and a second derivation
\* from the same inputs returns an equal request.
C27_DerivationSideEffectFree ==
    [][steps' = steps + 1
         => /\ UNCHANGED <<stories, current_story, expanded_story, jira_issue,
                           error, config>>
            /\ (pc = "derived" /\ pc' = "derived") => issue_data' = issue_data]_vars

\* C27 witness: a story with labels, components and an epic of its own has
\* been derived twice against a global section that has all three as well.
C27_Witness ==
    /\ pc = "derived"
    /\ steps = 2
    /\ Truthy(current_story["labels"])
    /\ Truthy(current_story["components"])
    /\ Truthy(current_story["epic"])
    /\ config.global # Absent
    /\ Truthy(config.global["labels"])
    /\ issue_data["labels"] = current_story["labels"]
    /\ issue_data["customfield_10014"] = current_story["epic"]

\* C29: every derived request passes the tracker client's validation: it
\* has a project that is a mapping with a key, a summary, and an issue type
\* that is a mapping with a name.
C29_DerivedRequestValid ==
    pc = "derived"
    => /\ ValidateIssueData(issue_data) = ""
       /\ IsDictWith(issue_data["project"], "key")
       /\ issue_data["summary"] # Absent
       /\ IsDictWith(issue_data["issuetype"], "name")

\* C29 witness: a story without title and project, with a null epic, was
\* derived with no global section at all.
C29_Witness ==
    /\ pc = "derived"
    /\ current_story["title"] = Absent
    /\ current_story["project"] = Absent
    /\ current_story["epic"] = None
    /\ config.global = Absent
    /\ issue_data["summary"] = Str("Generated Story")
    /\ issue_data["project"] = Dict1("key", JiraProjectKey)

(***************************************************************************)
(* The tracker client on its own: one create_issue call on any request     *)
(***************************************************************************)
RequestSet ==
    { [k \in IssueKeys |->
         CASE k = "project" -> p
           [] k = "summary" -> sm
           [] k = "issuetype" -> t
           [] k = "description" -> ds
           [] k = "labels" -> lb
           [] OTHER -> Absent] :
        p \in {Absent, Dict1("key", Str("P1")), Str("P1")},
        sm \in {Absent, Str("S")},
        t \in {Absent, Dict1("name", Str("Story")), Str("Story")},
        ds \in {Absent, Str("d")},
        lb \in {Absent, List(<<Str("a")>>)} }

ClientInit ==
    /\ config = [has_stories |-> FALSE, stories |-> <<>>, global |-> Absent]
    /\ dry_run = FALSE
    /\ stories = <<>>
    /\ current_story = None
    /\ expanded_story = None
    /\ jira_issue = None
    /\ error = None
    /\ issue_data \in RequestSet
    /\ pc = "client_call"
    /\ steps = 0
    /\ loaded = <<>>
    /\ idx = 0
    /\ hist = <<>>
    /\ sent = None
    /\ calls = NoCalls
    /\ jira_conn \in {"none", "JIRA"}
    /\ proc = [cmd |-> "client", file |-> "present", content |-> config,
               env |-> RequiredSettings, exit |-> "none", agent |-> FALSE]
    /\ llm_client = NoClient
    /\ prompt = None

\* one call of JiraClient.create_issue by a caller that does not catch: the
\* exception that leaves the call is kept in `error`
ClientCreateIssue ==
    /\ pc = "client_call"
    /\ \E u \in JiraUpstreamFor(jira_conn) :
          LET r == JiraCreateIssue(issue_data, u)
          IN /\ pc' = (IF r.res.ok THEN "client_returned" ELSE "client_raised")
             /\ jira_issue' = r.res.v
             /\ error' = (IF r.res.ok THEN None ELSE Str(r.res.exc))
             /\ sent' = (IF r.called THEN issue_data ELSE sent)
             /\ jira_conn' = r.conn
             /\ calls' = [calls EXCEPT !.tracker = @ + 1]
    /\ UNCHANGED <<config, dry_run, stories, current_story, expanded_story,
                   issue_data, steps, loaded, idx, hist, proc>>
    /\ UNCHANGED <<llm_client, prompt>>

ClientNext == ClientCreateIssue

ClientSpec == ClientInit /\ [][ClientNext]_vars

RequiredFields == <<"project", "summary", "issuetype">>

MissingFields(d) == { i \in 1..Len(RequiredFields) : d[RequiredFields[i]] = Absent }

FirstMissing(d) ==
    RequiredFields[CHOOSE i \in MissingFields(d) :
                       \A j \in MissingFields(d) : i <= j]

\* C13: create_issue on a request that lacks project, summary or issuetype
\* raises the validation error naming the first missing field, and the
\* tracker connection is neither created nor called.
C13_ValidationBeforeNetwork ==
    [][(pc = "client_call" /\ MissingFields(issue_data) # {})
         => /\ pc' = "client_raised"
            /\ error' = Str("Required field '" \o FirstMissing(issue_data)
                             \o "' is missing from issue data")
            /\ sent' = None
            /\ jira_conn' = jira_conn]_vars

\* C13 witness: a request that lacks only its summary was refused while no
\* connection existed.
C13_Witness ==
    /\ pc = "client_raised"
    /\ issue_data["project"] # Absent
    /\ issue_data["summary"] = Absent
    /\ issue_data["issuetype"] # Absent
    /\ error = Str("Required field 'summary' is missing from issue data")
    /\ jira_conn = "none"
    /\ sent = None

(***************************************************************************)
(* The command line: run and validate, from the file to the exit code      *)
(***************************************************************************)
\* mutant: an empty file is handed on as a configuration
LoadConfig_NoEmptyCheck(file, content) ==
    IF file = "missing"
    THEN Raise("Configuration file not found")
    ELSE Ok(content)

\* load_config: the file is missing, or parses to nothing (content None),
\* or parses to a configuration
LoadConfig(file, content) ==
    IF file = "missing"
    THEN Raise("Configuration file not found")
    ELSE IF content = None
    THEN Raise("Empty or invalid YAML file")
    ELSE Ok(content)

\* mutant: the default project key has become optional
AppSettingsRaises_ProjectKeyOptional(env) ==
    ~((RequiredSettings \ {"JIRA_PROJECT_KEY"}) \subseteq env)

\* AppSettings(): validation fails when a field without default is not set
AppSettingsRaises(env) == ~(RequiredSettings \subseteq env)

EnvSets ==
    {RequiredSettings, {}} \cup { RequiredSettings \ {x} : x \in RequiredSettings }

\* the configurations of the command-line runs: one story shorter than
\* those of the workflow runs
MainConfigSet ==
    { c \in ConfigSet : Len(c.stories) < MaxStories }

MainFiles ==
    { [file |-> "missing", content |-> None], [file |-> "present", content |-> None] }
    \cup { [file |-> "present", content |-> c] : c \in MainConfigSet }

MainInit ==
    /\ \E f \in MainFiles, cmd \in {"run", "validate"}, env \in EnvSets :
          /\ proc = [cmd |-> cmd, file |-> f.file, content |-> f.content,
                     env |-> env, exit |-> "none", agent |-> FALSE]
          /\ loaded = (IF f.content = None THEN <<>> ELSE f.content.stories)
          /\ hist = (IF f.content = None THEN <<>>
                     ELSE [i \in 1..Len(f.content.stories) |-> NoHist])
    /\ config = None
    /\ dry_run \in BOOLEAN
    /\ stories = <<>>
    /\ current_story = None
    /\ expanded_story = None
    /\ jira_issue = None
    /\ error = None
    /\ issue_data = None
    /\ pc = "main"
    /\ steps = 0
    /\ idx = 0
    /\ sent = None
    /\ calls = NoCalls
    /\ jira_conn = "none"
    /\ llm_client = NoClient
    /\ prompt = None

\* main.run / main.validate up to the use of the loaded configuration: any
\* exception ends the process with exit code 1
MainLoadConfig ==
    /\ pc = "main"
    /\ LET r == LoadConfig(proc.file, proc.content)
       IN IF ~r.ok
          THEN /\ proc' = [proc EXCEPT !.exit = "1"]
               /\ pc' = "exited"
               /\ UNCHANGED config
          ELSE /\ config' = r.v
               /\ IF proc.cmd = "validate"
                  THEN /\ proc' = [proc EXCEPT
                                     !.exit = IF r.v = None THEN "1" ELSE "0"]
                       /\ pc' = "exited"
                  ELSE /\ pc' = "construct"
                       /\ UNCHANGED proc
    /\ UNCHANGED <<dry_run, stories, current_story, expanded_story, jira_issue,
                   error, issue_data, steps, loaded, idx, hist, sent, calls,
                   jira_conn>>
    /\ UNCHANGED <<llm_client, prompt>>

\* JiraAgent.__init__ (get_app_settings first), then process_stories enters
\* the graph with a fresh AgentState
MainConstructAgent ==
    /\ pc = "construct"
    /\ IF AppSettingsRaises(proc.env)
       THEN /\ proc' = [proc EXCEPT !.exit = "1"]
            /\ pc' = "exited"
       ELSE /\ proc' = [proc EXCEPT !.agent = TRUE]
            /\ pc' = EntryPoint
    /\ UNCHANGED <<config, dry_run, stories, current_story, expanded_story,
                   jira_issue, error, issue_data, steps, loaded, idx, hist, sent,
                   calls, jira_conn>>
    /\ UNCHANGED <<llm_client, prompt>>

\* main.run: the exception process_stories re-raised ends the process
MainExit ==
    /\ pc = "raised"
    /\ proc' = [proc EXCEPT !.exit = "1"]
    /\ pc' = "exited"
    /\ UNCHANGED <<config, dry_run, stories, current_story, expanded_story,
                   jira_issue, error, issue_data, steps, loaded, idx, hist, sent,
                   calls, jira_conn>>
    /\ UNCHANGED <<llm_client, prompt>>

MainNext ==
    \/ MainLoadConfig
    \/ MainConstructAgent
    \/ MainExit
    \/ LoadStories
    \/ ProcessStory
    \/ ExpandStory
    \/ CreateJiraIssue
    \/ GraphRecursionError

MainSpec == MainInit /\ [][MainNext]_vars

\* C14: with a missing or an empty configuration file, run and validate end
\* with a non-zero exit code, no controller is constructed, no story is
\* touched and neither client is called.
C14_ConfigErrorsFatal ==
    (proc.file = "missing" \/ proc.content = None)
    => /\ ~proc.agent
       /\ idx = 0
       /\ calls.llm = 0 /\ calls.tracker = 0
       /\ pc \in {"main", "exited"}
       /\ pc = "exited" => proc.exit = "1"

\* C14 witness: run has ended on an empty configuration file.
C14_Witness ==
    /\ proc.cmd = "run"
    /\ proc.file = "present"
    /\ proc.content = None
    /\ pc = "exited"
    /\ proc.exit = "1"

\* C16: when a required environment setting is absent, run (dry or not)
\* ends with a non-zero exit code before the controller exists, before any
\* story is dequeued and before any client call.
C16_MissingSettingAborts ==
    (proc.cmd = "run" /\ ~(RequiredSettings \subseteq proc.env))
    => /\ ~proc.agent
       /\ idx = 0
       /\ calls.llm = 0 /\ calls.tracker = 0
       /\ pc \in {"main", "construct", "exited"}
       /\ pc = "exited" => proc.exit = "1"

\* C16 witness: a dry run with a valid configuration of one story has ended
\* because only the default project key is not set.
C16_Witness ==
    /\ proc.cmd = "run"
    /\ dry_run
    /\ proc.env = RequiredSettings \ {"JIRA_PROJECT_KEY"}
    /\ proc.content # None
    /\ Len(loaded) = 1
    /\ pc = "exited"
    /\ proc.exit = "1"

(***************************************************************************)
(* Further claims about the workflow run (properties of Spec)              *)
(***************************************************************************)
\* C15: the run never modifies the loaded configuration: its story list
\* stays the list that was loaded.
C15_ConfigUnchanged ==
    config.has_stories => config.stories = loaded

\* C17: an exception in the prompt rendering, the completion call, the
\* derivation or the tracker call does not leave the step: the step ends on
\* its edge with a non-empty error indicator, and a failed submit leaves the
\* issue reference as it was.
C17_FailuresStayInStep ==
    [][calls'.caught > calls.caught
         => /\ pc' = EdgeFrom(pc)
            /\ Truthy(error')
            /\ pc = "create_jira_issue" => jira_issue' = jira_issue]_vars

\* C17 witness: the tracker call of the second story failed after the first
\* story's issue had been recorded.
C17_Witness ==
    /\ AfterSubmit
    /\ idx = 2
    /\ hist[1].issued
    /\ hist[2].tracker_failed
    /\ calls.caught = 1
    /\ jira_issue # None /\ jira_issue.key = "KEY-1"
    /\ Truthy(error)

\* C18: the expanded content does not outlive its story: when the submit
\* step is over and the next dequeue is due, the run state holds none.
C18_ExpandedContentCleared ==
    (pc = "process_story" /\ steps < RecursionLimit) => expanded_story = None

\* C19: a derived request (sent or logged) carries as description the text
\* the completion client returned for the current story in this cycle, and
\* the summary of that story.
C19_DescriptionIsThisCyclesText ==
    (AfterSubmit /\ issue_data # None)
    => /\ calls.cycle_text # None
       /\ issue_data["description"] = calls.cycle_text
       /\ current_story = loaded[idx]
       /\ issue_data["summary"] =
              (IF loaded[idx]["title"] = Absent THEN Str("Generated Story")
               ELSE loaded[idx]["title"])

\* C19 witness: the second story was submitted with its own text, which
\* differs from the text of the first.
C19_Witness ==
    /\ AfterSubmit
    /\ idx = 2
    /\ issue_data # None
    /\ hist[1].issued
    /\ hist[1].text # hist[2].text
    /\ issue_data["description"] = hist[2].text

\* C28: once the stories are loaded the queue is a suffix of the list that
\* was loaded: a step either leaves the queue as it is or, in the dequeue
\* step, removes its head; nothing is added or reordered and the queue never
\* gets longer.
C28_QueueIsSuffix ==
    [][pc # EntryPoint
         => /\ stories = SubSeq(loaded, Len(loaded) - Len(stories) + 1, Len(loaded))
            /\ \/ stories' = stories
               \/ /\ pc = "process_story"
                  /\ stories # <<>>
                  /\ stories' = Tail(stories)
                  /\ current_story' = Head(stories)
            /\ Len(stories') <= Len(stories)]_vars

\* C28 witness: of two different stories the first has been dequeued and
\* been through its cycle, and the second is what is left in the queue.
C28_Witness ==
    /\ Len(loaded) = 2
    /\ loaded[1] # loaded[2]
    /\ AfterSubmit
    /\ idx = 1
    /\ stories = <<loaded[2]>>

\* C20: the expand step without a current story calls no client, records
\* an error reason, and the controller then runs the error handler.
C20_NoCurrentStoryHandled ==
    [][(pc = "expand_story" /\ ~TruthyDict(current_story) /\ steps' = steps + 1)
         => /\ calls'.llm = calls.llm
            /\ Truthy(error')
            /\ pc' = "handle_error"]_vars

(***************************************************************************)
(* The completion client on its own: a few calls on one client             *)
(***************************************************************************)
\* calls made on the one client
MaxCalls == 3

\* the max_tokens argument of generate_completion
Overrides == {None, IntV(0), IntV(50), IntV(200)}

\* transport-level failures of the completion service
LLMFailures == {"timeout", "authentication", "rate limit"}

CompletionUpstream ==
    LLMUpstream \cup { [kind |-> "raise", text |-> t] : t \in LLMFailures }

CompletionPoints == {"llm_idle", "llm_returned", "llm_raised"}

CompletionInit ==
    /\ config = [has_stories |-> FALSE, stories |-> <<>>, global |-> Absent]
    /\ dry_run = FALSE
    /\ stories = <<>>
    /\ current_story = None
    /\ expanded_story = None
    /\ jira_issue = None
    /\ error = None
    /\ issue_data = None
    /\ pc = "llm_idle"
    /\ steps = 0
    /\ loaded = <<>>
    /\ idx = 0
    /\ hist = <<>>
    /\ sent = None
    /\ calls = NoCalls
    /\ jira_conn = "none"
    /\ proc = [cmd |-> "completion", file |-> "present", content |-> config,
               env |-> RequiredSettings, exit |-> "none", agent |-> FALSE]
    /\ llm_client = NoClient
    /\ prompt = None

\* one call of OpenAIClient.generate_completion by a caller that does not
\* catch: the text returned is kept in `expanded_story`, the exception that
\* leaves the call in `error`
GenerateCompletion ==
    /\ pc \in CompletionPoints
    /\ calls.llm < MaxCalls
    /\ \E max_tokens \in Overrides, u \in CompletionUpstream :
          LET original_max_tokens == llm_client.max_tokens
              overridden == IF Truthy(max_tokens) THEN max_tokens
                            ELSE original_max_tokens
              response == Agenerate(u)
          IN /\ llm_client' =
                   [max_tokens |-> IF response.ok THEN original_max_tokens
                                   ELSE overridden,
                    call |-> [op |-> "generate_completion",
                              max_tokens |-> max_tokens, reply |-> u]]
             /\ pc' = (IF response.ok THEN "llm_returned" ELSE "llm_raised")
             /\ expanded_story' = response.v
             /\ error' = (IF response.ok THEN None ELSE Str(response.exc))
             /\ calls' = [calls EXCEPT !.llm = @ + 1]
    /\ UNCHANGED <<config, dry_run, stories, current_story, jira_issue,
                   issue_data, steps, loaded, idx, hist, sent, jira_conn, proc,
                   prompt>>

\* one call of OpenAIClient.generate_story_expansion, likewise
GenerateStoryExpansion ==
    /\ pc \in CompletionPoints
    /\ calls.llm < MaxCalls
    /\ \E u \in CompletionUpstream :
          LET response == Agenerate(u)
          IN /\ llm_client' =
                   [llm_client EXCEPT
                      !.call = [op |-> "generate_story_expansion",
                                max_tokens |-> None, reply |-> u]]
             /\ pc' = (IF response.ok THEN "llm_returned" ELSE "llm_raised")
             /\ expanded_story' = response.v
             /\ error' = (IF response.ok THEN None ELSE Str(response.exc))
             /\ calls' = [calls EXCEPT !.llm = @ + 1]
    /\ UNCHANGED <<config, dry_run, stories, current_story, jira_issue,
                   issue_data, steps, loaded, idx, hist, sent, jira_conn, proc,
                   prompt>>

CompletionNext ==
    \/ GenerateCompletion
    \/ GenerateStoryExpansion

CompletionSpec == CompletionInit /\ [][CompletionNext]_vars

\* C21: a call of generate_completion with an override of the maximum output
\* tokens, whether it returns or raises, leaves the client's max_tokens at
\* the value it had before the call.
C21_OverrideUndone ==
    [][( /\ calls'.llm = calls.llm + 1
         /\ llm_client'.call.op = "generate_completion"
         /\ Truthy(llm_client'.call.max_tokens) )
         => llm_client'.max_tokens = llm_client.max_tokens]_vars

\* C25: a call ends with the error "Empty response from OpenAI" exactly when
\* the upstream answer holds no generation; an upstream failure leaves the
\* call as the very exception, and an answer with a generation is returned.
C25_EmptyResponseExactly ==
    pc \in {"llm_returned", "llm_raised"}
    => LET u == llm_client.call.reply
       IN /\ (pc = "llm_raised" /\ error = Str("Empty response from OpenAI"))
                <=> u.kind \in {"no_generations", "empty_first_generation"}
          /\ u.kind = "raise" => (pc = "llm_raised" /\ error = Str(u.text))
          /\ u.kind = "text"
                => (pc = "llm_returned" /\ expanded_story = Str(u.text))

\* C25 witness: after a first call that found no generation, a second call
\* met a rate limit, which left the call unchanged.
C25_Witness ==
    /\ calls.llm = 2
    /\ pc = "llm_raised"
    /\ llm_client.call.reply = [kind |-> "raise", text |-> "rate limit"]
    /\ error = Str("rate limit")

(***************************************************************************)
(* The prompt builder on its own: one rendering of any story               *)
(***************************************************************************)
PromptListValues ==
    { Absent, None, List(<<>>), List(<<Str("a")>>),
      List(<<Str("a"), Str("b")>>), List(<<Str("b"), Str("a")>>) }

PromptStorySet ==
    { [EmptyStory EXCEPT !["title"] = t, !["priority"] = p, !["labels"] = l,
                         !["components"] = c] :
        t \in {Absent, Str("A")}, p \in {Absent, Str("High")},
        l \in PromptListValues, c \in PromptListValues }

PromptInit ==
    /\ config = [has_stories |-> FALSE, stories |-> <<>>, global |-> Absent]
    /\ dry_run = FALSE
    /\ stories = <<>>
    /\ current_story \in PromptStorySet
    /\ expanded_story = None
    /\ jira_issue = None
    /\ error = None
    /\ issue_data = None
    /\ pc = "render"
    /\ steps = 0
    /\ loaded = <<>>
    /\ idx = 0
    /\ hist = <<>>
    /\ sent = None
    /\ calls = NoCalls
    /\ jira_conn = "none"
    /\ proc = [cmd |-> "prompt", file |-> "present", content |-> config,
               env |-> RequiredSettings, exit |-> "none", agent |-> FALSE]
    /\ llm_client = NoClient
    /\ prompt = None

\* one call of generate_expansion_prompt by a caller that does not catch:
\* the exception that leaves the call is kept in `error`
RenderPrompt ==
    /\ pc = "render"
    /\ LET rendered == GenerateExpansionPrompt(current_story)
       IN /\ prompt' = rendered.v
          /\ error' = (IF rendered.ok THEN None ELSE Str(rendered.exc))
          /\ pc' = (IF rendered.ok THEN "rendered" ELSE "render_raised")
    /\ UNCHANGED <<config, dry_run, stories, current_story, expanded_story,
                   jira_issue, issue_data, steps, loaded, idx, hist, sent, calls,
                   jira_conn, proc, llm_client>>

PromptNext == RenderPrompt

PromptSpec == PromptInit /\ [][PromptNext]_vars

\* the names of a list of at most two, joined by ", " in their order
Joined2(v) ==
    IF Len(v.l) = 1 THEN v.l[1].s ELSE v.l[1].s \o ", " \o v.l[2].s

\* C26: the rendering never fails; labels and components that are absent
\* (missing or null) or empty are rendered as the literal "None", and a
\* non-empty list as its names joined by ", " in their order.
C26_PromptNeverFails ==
    pc # "render"
    => /\ pc = "rendered"
       /\ \A k \in {"labels", "components"} :
             prompt[k] = (IF Truthy(current_story[k]) THEN Joined2(current_story[k])
                          ELSE "None")

====
